---- MODULE Spec2Model ----
(***************************************************************************)
(* Model of server/scripts/update_cursor_mcp_config.py: main() reads the   *)
(* API key from ~/.easygrid/api-key, parses ~/.cursor/mcp.json, dumps a    *)
(* backup to ~/.cursor/mcp.json.bak, updates one entry of mcpServers in    *)
(* memory and dumps the document back to ~/.cursor/mcp.json.               *)
(*                                                                         *)
(* A JSON value is a record [k, s, m]: k is its kind ("obj", "arr", "str", *)
(* "num"), s the pieces of a string, m the members of an object (a         *)
(* sequence of <<key, value>> pairs in insertion order, as a Python dict   *)
(* keeps them) or the elements of an array.  "num" stands for every JSON   *)
(* value Python neither subscripts nor tests with `in` (numbers, booleans, *)
(* null).  The text of a JSON file is a record [fmt, val]: val is the      *)
(* value tree as written in the file (an object of the text may repeat a   *)
(* key), fmt is "pretty" when the text is laid out exactly as              *)
(* json.dump(indent=2, ensure_ascii=False) lays it out, "compact" for any  *)
(* other layout of valid JSON, "garbage" for text that is not JSON,        *)
(* "empty" for a file truncated by open(.., 'w') and "absent" for no file. *)
(***************************************************************************)
EXTENDS Integers, Sequences, FiniteSets, TLC

VARIABLES keyFile, fs, pc, api_key, config, server_name, result,
          run, start, orig, ops, hist

vars == <<keyFile, fs, pc, api_key, config, server_name, result,
          run, start, orig, ops, hist>>

\* ------------------------------------------------------------------ bounds
MaxKeyLen == 3
MaxRuns == 2

\* ------------------------------------------------------------- JSON values
Obj(members) == [k |-> "obj", s |-> <<>>, m |-> members]
Arr(elems) == [k |-> "arr", s |-> <<>>, m |-> elems]
Str(pieces) == [k |-> "str", s |-> pieces, m |-> <<>>]
Num == [k |-> "num", s |-> <<>>, m |-> <<>>]
None == [k |-> "none", s |-> <<>>, m |-> <<>>]

\* dict operations of Python on an "obj" value
Keys(d) == {d.m[i][1] : i \in DOMAIN d.m}
Has(d, key) == key \in Keys(d)
Get(d, key) == d.m[CHOOSE i \in DOMAIN d.m : d.m[i][1] = key][2]

PutAppend(d, key, v) == Obj(Append(d.m, <<key, v>>))
\* d[key] = v: an existing key keeps its position, a new key goes last
Put(d, key, v) ==
    IF Has(d, key)
    THEN Obj([i \in DOMAIN d.m |-> IF d.m[i][1] = key THEN <<key, v>> ELSE d.m[i]])
    ELSE Obj(Append(d.m, <<key, v>>))

\* `key in c`: a dict tests its keys, a list its elements; TypeError otherwise
InRaises(c) == c.k \notin {"obj", "arr"}
PyIn(c, key) ==
    IF c.k = "obj" THEN Has(c, key)
    ELSE \E i \in DOMAIN c.m : c.m[i] = Str(<<key>>)
\* c[key] with a str key: KeyError on a dict without it, TypeError on a non-dict
GetRaises(c, key) == c.k # "obj" \/ ~Has(c, key)
\* c[key] = v with a str key: TypeError on a non-dict
SetRaises(c) == c.k # "obj"

\* ------------------------------------------------------ JSON text and files
Absent == [fmt |-> "absent", val |-> None]
Truncated == [fmt |-> "empty", val |-> None]
Garbage == [fmt |-> "garbage", val |-> None]
Exists(f) == f.fmt # "absent"
Parses(f) == f.fmt \in {"pretty", "compact"}

RECURSIVE LoadValue(_)
RECURSIVE LoadPairs(_, _)
\* json.load builds each object with dict(pairs): of a repeated key the first
\* position and the last value are kept
LoadPairs(pairs, acc) ==
    IF pairs = <<>> THEN acc
    ELSE LoadPairs(Tail(pairs), Put(acc, Head(pairs)[1], LoadValue(Head(pairs)[2])))
LoadValue(v) ==
    CASE v.k = "obj" -> LoadPairs(v.m, Obj(<<>>))
      [] v.k = "arr" -> Arr([i \in DOMAIN v.m |-> LoadValue(v.m[i])])
      [] OTHER -> v
json_load(f) == LoadValue(f.val)

json_dump_compact(doc) == [fmt |-> "compact", val |-> doc]
\* json.dump(doc, f, indent=2, ensure_ascii=False)
json_dump(doc) == [fmt |-> "pretty", val |-> doc]

\* ------------------------------------------------------------------- paths
api_key_file == "api-key"
mcp_json == "mcp.json"
backup_no_suffix == mcp_json
backup == "mcp.json.bak"
Paths == {mcp_json, backup}

\* ------------------------------------------------------------- str.strip()
IsSpace(c) == c \in {" ", "\n", "\t"}
RECURSIVE LStrip(_)
LStrip(t) == IF t # <<>> /\ IsSpace(Head(t)) THEN LStrip(Tail(t)) ELSE t
RECURSIVE RStrip(_)
RStrip(t) ==
    IF t # <<>> /\ IsSpace(t[Len(t)]) THEN RStrip(SubSeq(t, 1, Len(t) - 1)) ELSE t
Strip(t) == RStrip(LStrip(t))

\* ---------------------------------------------------------------- literals
McpUrl == Str(<<"http://localhost:8080/api/mcp/v1">>)
McpDescription == Str(<<"EasyGrid CRUD - MCP HTTP">>)
NewEntryTyped == Obj(<< <<"type", Str(<<"http">>)>> >>)
NewEntry == Obj(<<>>)

\* ------------------------------------------- the files a run may start from
KeyChars == {"a", " ", "\n"}
RECURSIVE KeyTexts(_)
KeyTexts(n) ==
    IF n = 0 THEN {<<>>}
    ELSE KeyTexts(n - 1) \cup
         {Append(t, c) : t \in {u \in KeyTexts(n - 1) : Len(u) = n - 1}, c \in KeyChars}
KeyFiles ==
    {[exists |-> FALSE, text |-> <<>>]} \cup
    {[exists |-> TRUE, text |-> t] : t \in KeyTexts(MaxKeyLen)}

Opt(key, v) == IF v = None THEN <<>> ELSE << <<key, v>> >>

OldHeaders ==
    Obj(<< <<"Authorization", Str(<<"Bearer t">>)>>,
           <<"X-MCP-API-Key", Str(<<"old-key">>)>> >>)
FullEntry ==
    Obj(<< <<"command", Str(<<"npx">>)>>, <<"headers", OldHeaders>>,
           <<"url", Str(<<"http://old">>)>>, <<"description", Str(<<"old">>)>> >>)
BadHeadersEntry == Obj(<< <<"headers", Num>>, <<"url", Str(<<"http://old">>)>> >>)
OtherEntry == Obj(<< <<"command", Str(<<"uvx">>)>> >>)

EasygridEntries == {None, Obj(<<>>), FullEntry, BadHeadersEntry, Num}
EasygridMcpEntries == {None, Obj(<<>>), FullEntry, Arr(<<Str(<<"headers">>)>>)}

ServerMaps ==
    {None, Num, Arr(<<Str(<<"easygrid">>)>>)} \cup
    {Obj(Opt("other", o) \o Opt("easygrid-mcp", em) \o Opt("easygrid", e)) :
        o \in {OtherEntry}, em \in EasygridMcpEntries, e \in EasygridEntries} \cup
    {Obj(Opt("easygrid-mcp", em)) : em \in {None, FullEntry}}

Docs ==
    {Obj(Opt("theme", Str(<<"dark">>)) \o Opt("mcpServers", ms)) : ms \in ServerMaps} \cup
    {Obj(<<>>), Obj(Opt("mcpServers", Obj(<<>>))), Num, Arr(<<Str(<<"mcpServers">>)>>)}

\* a text that is valid JSON, repeats the key mcpServers and is not laid out
\* as json.dump lays it out
RepeatedKeyText ==
    [fmt |-> "compact",
     val |-> Obj(<< <<"mcpServers", Obj(Opt("other", OtherEntry))>>,
                    <<"theme", Str(<<"dark">>)>>,
                    <<"mcpServers", Obj(Opt("easygrid-mcp", FullEntry))>> >>)]

ConfigFiles ==
    {Absent, Garbage, RepeatedKeyText} \cup
    {[fmt |-> "pretty", val |-> d] : d \in Docs} \cup
    {[fmt |-> "compact", val |-> d] :
        d \in {Obj(Opt("mcpServers", Obj(<<>>))),
               Obj(Opt("theme", Str(<<"dark">>)) \o
                   Opt("mcpServers", Obj(Opt("other", OtherEntry) \o
                                         Opt("easygrid", FullEntry))))}}

BackupFiles == {Absent, [fmt |-> "pretty", val |-> Obj(Opt("theme", Str(<<"light">>)))]}

\* ------------------------------------------------------------------- state
NoResult == [kind |-> "none", code |-> -1, at |-> ""]

Init ==
    /\ keyFile \in KeyFiles
    /\ \E c \in ConfigFiles, b \in BackupFiles :
          fs = [p \in Paths |-> IF p = mcp_json THEN c ELSE b]
    /\ pc = "L15"
    /\ api_key = <<>>
    /\ config = None
    /\ server_name = ""
    /\ result = NoResult
    /\ run = 1
    /\ start = fs
    /\ orig = None
    /\ ops = <<>>
    /\ hist = <<>>

\* the run ends: by `return code`, by an unhandled exception (the interpreter
\* exits with status 1), or by the process being killed
Finish(kind, code) ==
    /\ pc' = "done"
    /\ result' = [kind |-> kind, code |-> code, at |-> pc]
    /\ hist' = Append(hist, [kind |-> kind, code |-> code, cfg |-> fs[mcp_json],
                             name |-> server_name, key |-> api_key])

Return(code) == Finish("return", code)
Raise == Finish("raise", 1)
Goto(label) == pc' = label /\ UNCHANGED <<result, hist>>
Log(op, path) == ops' = Append(ops, <<op, path>>)

Servers(doc) == Get(doc, "mcpServers")
SetEntryAlone(doc, name, entry) == Put(doc, "mcpServers", Obj(<< <<name, entry>> >>))
\* config["mcpServers"][name] = entry
SetEntry(doc, name, entry) == Put(doc, "mcpServers", Put(Servers(doc), name, entry))

\* ----------------------------------------------------------------- main()
\* line 15-18: if not api_key_file.exists(): ... return 1
CheckKeyFile ==
    /\ pc = "L15"
    /\ IF ~keyFile.exists THEN Return(1) ELSE Goto("L20")
    /\ UNCHANGED <<keyFile, fs, api_key, config, server_name, run, start, orig, ops>>

ReadKeyNoStrip ==
    /\ pc = "L20"
    /\ Log("read", api_key_file)
    /\ IF ~keyFile.exists
       THEN Raise /\ UNCHANGED api_key
       ELSE /\ api_key' = keyFile.text
            /\ IF api_key' = <<>> THEN Return(1) ELSE Goto("L25")
    /\ UNCHANGED <<keyFile, fs, config, server_name, run, start, orig>>

ReadKeyNoEmptyCheck ==
    /\ pc = "L20"
    /\ Log("read", api_key_file)
    /\ IF ~keyFile.exists
       THEN Raise /\ UNCHANGED api_key
       ELSE api_key' = Strip(keyFile.text) /\ Goto("L25")
    /\ UNCHANGED <<keyFile, fs, config, server_name, run, start, orig>>

\* line 20-23: api_key = api_key_file.read_text().strip(); if not api_key: return 1
ReadKey ==
    /\ pc = "L20"
    /\ Log("read", api_key_file)
    /\ IF ~keyFile.exists
       THEN Raise /\ UNCHANGED api_key
       ELSE /\ api_key' = Strip(keyFile.text)
            /\ IF api_key' = <<>> THEN Return(1) ELSE Goto("L25")
    /\ UNCHANGED <<keyFile, fs, config, server_name, run, start, orig>>

CheckConfigNoReturn ==
    /\ pc = "L25"
    /\ Goto("L30")
    /\ UNCHANGED <<keyFile, fs, api_key, config, server_name, run, start, orig, ops>>

\* line 25-27: if not mcp_json.exists(): ... return 1
CheckConfig ==
    /\ pc = "L25"
    /\ IF ~Exists(fs[mcp_json]) THEN Return(1) ELSE Goto("L30")
    /\ UNCHANGED <<keyFile, fs, api_key, config, server_name, run, start, orig, ops>>

\* line 30-31: with open(mcp_json, 'r') as f: config = json.load(f)
ReadConfig ==
    /\ pc = "L30"
    /\ IF ~Exists(fs[mcp_json])
       THEN Raise /\ UNCHANGED <<config, orig, ops>>
       ELSE /\ Log("read", mcp_json)
            /\ IF ~Parses(fs[mcp_json])
               THEN Raise /\ UNCHANGED <<config, orig>>
               ELSE /\ config' = json_load(fs[mcp_json])
                    /\ orig' = config'
                    /\ Goto("L35")
    /\ UNCHANGED <<keyFile, fs, api_key, server_name, run, start>>

\* line 34-35: open(backup, 'w') creates the file or truncates it
OpenBackup ==
    /\ pc = "L35"
    /\ fs' = [fs EXCEPT ![backup] = Truncated]
    /\ Log("open_w", backup)
    /\ Goto("L36")
    /\ UNCHANGED <<keyFile, api_key, config, server_name, run, start, orig>>

\* line 36: json.dump(config, f, indent=2, ensure_ascii=False)
DumpBackup ==
    /\ pc = "L36"
    /\ fs' = [fs EXCEPT ![backup] = json_dump(config)]
    /\ Log("dump", backup)
    /\ Goto("L39")
    /\ UNCHANGED <<keyFile, api_key, config, server_name, run, start, orig>>

\* line 39-40: if "mcpServers" not in config: config["mcpServers"] = {}
EnsureServers ==
    /\ pc = "L39"
    /\ IF InRaises(config) \/ (~PyIn(config, "mcpServers") /\ SetRaises(config))
       THEN Raise /\ UNCHANGED config
       ELSE /\ config' = IF PyIn(config, "mcpServers") THEN config
                         ELSE Put(config, "mcpServers", Obj(<<>>))
            /\ Goto("L43")
    /\ UNCHANGED <<keyFile, fs, api_key, server_name, run, start, orig, ops>>

ServerNameMcpFirst(ms) ==
    IF PyIn(ms, "easygrid-mcp") THEN "easygrid-mcp" ELSE "easygrid"

\* line 43-47: "easygrid" first, "easygrid-mcp" when only that one is there
ServerName(ms) ==
    IF PyIn(ms, "easygrid") THEN "easygrid"
    ELSE IF PyIn(ms, "easygrid-mcp") THEN "easygrid-mcp"
    ELSE "easygrid"

SelectServerNoFallback ==
    /\ pc = "L43"
    /\ server_name' = "easygrid"
    /\ IF GetRaises(config, "mcpServers")
       THEN Raise /\ UNCHANGED config
       ELSE LET ms == Servers(config) IN
            IF InRaises(ms) \/ (~PyIn(ms, "easygrid") /\ SetRaises(ms))
            THEN Raise /\ UNCHANGED config
            ELSE /\ config' = IF PyIn(ms, "easygrid") THEN config
                              ELSE SetEntry(config, "easygrid", NewEntry)
                 /\ Goto("L51")
    /\ UNCHANGED <<keyFile, fs, api_key, run, start, orig, ops>>

\* line 43-49: choose the entry; create config["mcpServers"]["easygrid"] = {}
\* when neither name is there
SelectServer ==
    /\ pc = "L43"
    /\ IF GetRaises(config, "mcpServers")
       THEN /\ server_name' = "easygrid"
            /\ Raise /\ UNCHANGED config
       ELSE LET ms == Servers(config) IN
            IF InRaises(ms)
            THEN /\ server_name' = "easygrid"
                 /\ Raise /\ UNCHANGED config
            ELSE /\ server_name' = ServerName(ms)
                 /\ IF PyIn(ms, "easygrid") \/ PyIn(ms, "easygrid-mcp")
                    THEN Goto("L51") /\ UNCHANGED config
                    ELSE IF SetRaises(ms)
                         THEN Raise /\ UNCHANGED config
                         ELSE /\ config' = SetEntry(config, "easygrid", NewEntry)
                              /\ Goto("L51")
    /\ UNCHANGED <<keyFile, fs, api_key, run, start, orig, ops>>

\* line 51-52: if "headers" not in entry: entry["headers"] = {}
EnsureHeaders ==
    /\ pc = "L51"
    /\ IF GetRaises(Servers(config), server_name)
       THEN Raise /\ UNCHANGED config
       ELSE LET entry == Get(Servers(config), server_name) IN
            IF InRaises(entry) \/ (~PyIn(entry, "headers") /\ SetRaises(entry))
            THEN Raise /\ UNCHANGED config
            ELSE /\ config' = IF PyIn(entry, "headers") THEN config
                              ELSE SetEntry(config, server_name,
                                            Put(entry, "headers", Obj(<<>>)))
                 /\ Goto("L54")
    /\ UNCHANGED <<keyFile, fs, api_key, server_name, run, start, orig, ops>>

\* line 54-56: the three assignments on the chosen entry
SetFields ==
    /\ pc = "L54"
    /\ LET entry == Get(Servers(config), server_name) IN
       IF GetRaises(entry, "headers") \/ SetRaises(Get(entry, "headers"))
       THEN Raise /\ UNCHANGED config
       ELSE LET h == Put(Get(entry, "headers"), "X-MCP-API-Key", Str(api_key))
                e1 == Put(entry, "headers", h)
                e2 == Put(e1, "url", McpUrl)
                e3 == Put(e2, "description", McpDescription)
            IN /\ config' = SetEntry(config, server_name, e3)
               /\ Goto("L59")
    /\ UNCHANGED <<keyFile, fs, api_key, server_name, run, start, orig, ops>>

\* line 59: open(mcp_json, 'w') truncates the configuration file
OpenConfig ==
    /\ pc = "L59"
    /\ fs' = [fs EXCEPT ![mcp_json] = Truncated]
    /\ Log("open_w", mcp_json)
    /\ Goto("L60")
    /\ UNCHANGED <<keyFile, api_key, config, server_name, run, start, orig>>

\* line 60: json.dump(config, f, indent=2, ensure_ascii=False)
DumpConfig ==
    /\ pc = "L60"
    /\ fs' = [fs EXCEPT ![mcp_json] = json_dump(config)]
    /\ Log("dump", mcp_json)
    /\ Goto("L62")
    /\ UNCHANGED <<keyFile, api_key, config, server_name, run, start, orig>>

\* line 62-64: print ...; return 0
ReturnSuccess ==
    /\ pc = "L62"
    /\ Return(0)
    /\ UNCHANGED <<keyFile, fs, api_key, config, server_name, run, start, orig, ops>>

\* the process stops between two steps (killed, power loss); no handler runs
Kill ==
    /\ pc # "done"
    /\ Finish("killed", -1)
    /\ UNCHANGED <<keyFile, fs, api_key, config, server_name, run, start, orig, ops>>

\* line 66-67: the script is run again, on the files the last run left
StartRun ==
    /\ pc = "done"
    /\ run < MaxRuns
    /\ run' = run + 1
    /\ pc' = "L15"
    /\ api_key' = <<>>
    /\ config' = None
    /\ server_name' = ""
    /\ result' = NoResult
    /\ start' = fs
    /\ orig' = None
    /\ ops' = <<>>
    /\ UNCHANGED <<keyFile, fs, hist>>

Next ==
    \/ CheckKeyFile
    \/ ReadKey
    \/ CheckConfig
    \/ ReadConfig
    \/ OpenBackup
    \/ DumpBackup
    \/ EnsureServers
    \/ SelectServer
    \/ EnsureHeaders
    \/ SetFields
    \/ OpenConfig
    \/ DumpConfig
    \/ ReturnSuccess
    \/ Kill
    \/ StartRun

Spec == Init /\ [][Next]_vars

\* ====================================================================
\* Properties
\* ====================================================================
Succeeded == pc = "done" /\ result.kind = "return" /\ result.code = 0
Ended == pc = "done" /\ result.kind # "killed"
Logged(op, path) == \E i \in DOMAIN ops : ops[i] = <<op, path>>
Count(op, path) == Cardinality({i \in DOMAIN ops : ops[i] = <<op, path>>})
Before(op1, path1, op2, path2) ==
    \A i \in DOMAIN ops : ops[i] = <<op2, path2>> =>
        \E j \in 1..(i - 1) : ops[j] = <<op1, path1>>

KeyMissing == ~keyFile.exists
KeyBlank == keyFile.exists /\ \A i \in DOMAIN keyFile.text : IsSpace(keyFile.text[i])
ConfigMissing == start["mcp.json"].fmt = "absent"

\* the document as written to mcp.json, and the parts of the document as read
\* and as written that the update is about (an absent part reads as {})
Written == fs["mcp.json"].val
Part(d, key) == IF d.k = "obj" /\ Has(d, key) THEN Get(d, key) ELSE Obj(<<>>)
OldServers == Part(orig, "mcpServers")
NewServers == Part(Written, "mcpServers")
OldEntry == Part(OldServers, server_name)
NewChosen == Part(NewServers, server_name)
OldHeadersOfEntry == Part(OldEntry, "headers")
NewHeaders == Part(NewChosen, "headers")
KeptExcept(old, new, keys) ==
    \A key \in Keys(old) \ keys : Has(new, key) /\ Get(new, key) = Get(old, key)
Updated(entry) ==
    /\ Has(entry, "headers") /\ Has(Get(entry, "headers"), "X-MCP-API-Key")
    /\ Get(Get(entry, "headers"), "X-MCP-API-Key") = Str(Strip(keyFile.text))
    /\ Has(entry, "url")
    /\ Get(entry, "url") = Str(<<"http://localhost:8080/api/mcp/v1">>)
    /\ Has(entry, "description")
    /\ Get(entry, "description") = Str(<<"EasyGrid CRUD - MCP HTTP">>)

\* C1: when the key file is absent, or holds only whitespace, or mcp.json is
\* absent, the run writes nothing (mcp.json and mcp.json.bak stay exactly as
\* they were at the start of the run) and, when it ends, it has returned 1.
C1_HandledFailureWritesNothing ==
    (KeyMissing \/ KeyBlank \/ ConfigMissing) =>
        /\ fs = start
        /\ ~ \E i \in DOMAIN ops : ops[i][1] \in {"open_w", "dump"}
        /\ Ended => (result.kind = "return" /\ result.code = 1)

C1_Witness ==
    /\ Ended /\ result.kind = "return" /\ result.code = 1
    /\ KeyBlank /\ keyFile.text # <<>> /\ ~ConfigMissing
    /\ fs["mcp.json.bak"].fmt # "absent"

\* C2: a successful run loses nothing: every top-level key but mcpServers,
\* every entry of mcpServers but the chosen one, every field of the chosen
\* entry but headers, url and description, and every header but
\* X-MCP-API-Key is in the written document with the value that was read.
C2_NothingLost ==
    Succeeded =>
        /\ KeptExcept(orig, Written, {"mcpServers"})
        /\ KeptExcept(OldServers, NewServers, {server_name})
        /\ KeptExcept(OldEntry, NewChosen, {"headers", "url", "description"})
        /\ KeptExcept(OldHeadersOfEntry, NewHeaders, {"X-MCP-API-Key"})

C2_Witness ==
    /\ Succeeded
    /\ Has(orig, "theme") /\ Has(OldServers, "other")
    /\ Has(OldEntry, "command") /\ Has(OldHeadersOfEntry, "Authorization")
    /\ Get(NewHeaders, "Authorization") = Str(<<"Bearer t">>)

\* C3: when "easygrid" is a key of mcpServers as read, a successful run
\* updates the "easygrid" entry, and an "easygrid-mcp" entry that was there
\* is in the written document with exactly the value it had.
C3_EasygridPreferred ==
    (Succeeded /\ Has(OldServers, "easygrid")) =>
        /\ server_name = "easygrid"
        /\ Updated(Part(NewServers, "easygrid"))
        /\ Has(OldServers, "easygrid-mcp") =>
              /\ Has(NewServers, "easygrid-mcp")
              /\ Get(NewServers, "easygrid-mcp") = Get(OldServers, "easygrid-mcp")

C3_Witness ==
    /\ Succeeded
    /\ Has(OldServers, "easygrid") /\ Has(OldServers, "easygrid-mcp")
    /\ Get(OldServers, "easygrid-mcp") = FullEntry
    /\ Get(NewServers, "easygrid") # Get(OldServers, "easygrid")

\* C4: when mcpServers as read has "easygrid-mcp" and not "easygrid", a
\* successful run updates the "easygrid-mcp" entry and the written mcpServers
\* has no "easygrid" key.
C4_FallbackToEasygridMcp ==
    (Succeeded /\ Has(OldServers, "easygrid-mcp") /\ ~Has(OldServers, "easygrid")) =>
        /\ server_name = "easygrid-mcp"
        /\ Updated(Part(NewServers, "easygrid-mcp"))
        /\ ~Has(NewServers, "easygrid")

C4_Witness ==
    /\ Succeeded
    /\ Has(OldServers, "easygrid-mcp") /\ ~Has(OldServers, "easygrid")
    /\ Get(NewServers, "easygrid-mcp") # Get(OldServers, "easygrid-mcp")

\* C5: when mcpServers as read has neither name (or the document has no
\* mcpServers at all), a successful run creates an "easygrid" entry whose
\* fields are exactly headers, url and description, whose headers hold
\* exactly X-MCP-API-Key, and creates no "easygrid-mcp" entry.
C5_CreatesEasygrid ==
    (Succeeded /\ ~Has(OldServers, "easygrid") /\ ~Has(OldServers, "easygrid-mcp")) =>
        /\ server_name = "easygrid"
        /\ Has(NewServers, "easygrid")
        /\ Keys(Get(NewServers, "easygrid")) = {"headers", "url", "description"}
        /\ Keys(Get(Get(NewServers, "easygrid"), "headers")) = {"X-MCP-API-Key"}
        /\ ~Has(NewServers, "easygrid-mcp")

C5_Witness ==
    /\ Succeeded
    /\ ~Has(orig, "mcpServers")
    /\ Has(NewServers, "easygrid") /\ Updated(Get(NewServers, "easygrid"))

KeyUsable == keyFile.exists /\ \E i \in DOMAIN keyFile.text : ~IsSpace(keyFile.text[i])
ConfigParses == start["mcp.json"].fmt \in {"pretty", "compact"}
\* the document parsed from mcp.json is an object in which mcpServers, the
\* entry the selection rule picks and that entry's headers are each either
\* absent or an object
IsObj(v) == v.k = "obj"
PickedName(ms) ==
    IF Has(ms, "easygrid") THEN "easygrid"
    ELSE IF Has(ms, "easygrid-mcp") THEN "easygrid-mcp" ELSE "easygrid"
ShapeOk(doc) ==
    /\ IsObj(doc)
    /\ Has(doc, "mcpServers") =>
          LET ms == Get(doc, "mcpServers") IN
          /\ IsObj(ms)
          /\ Has(ms, PickedName(ms)) =>
                LET e == Get(ms, PickedName(ms)) IN
                /\ IsObj(e)
                /\ Has(e, "headers") => IsObj(Get(e, "headers"))
ConfigShaped == ConfigParses /\ ShapeOk(LoadValue(start["mcp.json"].val))

\* C6 as stated: after a successful run the chosen entry holds the trimmed
\* key, the fixed url and the fixed description, and the run returns 0
\* exactly when the key file exists, its trimmed content is non-empty and
\* mcp.json exists and parses.
C6_ReturnsZeroIffParses ==
    /\ Succeeded => Updated(NewChosen)
    /\ Ended => (Succeeded <=> (KeyUsable /\ ConfigParses))

\* C6 amended: after a successful run the chosen entry holds the trimmed
\* key, the fixed url and the fixed description, and the run returns 0
\* exactly when the key file exists, its trimmed content is non-empty and
\* mcp.json exists and parses to an object in which mcpServers, the chosen
\* entry and its headers are each absent or an object.
C6_ReturnsZeroIffShaped ==
    /\ Succeeded => Updated(NewChosen)
    /\ Ended => (Succeeded <=> (KeyUsable /\ ConfigShaped))

C6_Witness ==
    /\ Succeeded
    /\ Strip(keyFile.text) # keyFile.text
    /\ OldEntry = FullEntry
    /\ Get(NewHeaders, "X-MCP-API-Key") = Str(Strip(keyFile.text))
    /\ Get(NewChosen, "url") # Get(OldEntry, "url")

BackupWritten == Logged("dump", "mcp.json.bak")

\* C7 as stated: once a run has written the backup, the content of
\* mcp.json.bak equals the content mcp.json had at the start of the run.
C7_BackupEqualsFile ==
    BackupWritten => fs["mcp.json.bak"] = start["mcp.json"]

\* C7 amended: once a run has written the backup, mcp.json.bak holds the
\* json.dump(indent=2) text of the document parsed from mcp.json as it was
\* at the start of the run, whatever the backup held before; it is the same
\* text as mcp.json had when mcp.json was already laid out that way, as it
\* is on a run that follows a successful run.
C7_BackupIsDumpOfParsed ==
    BackupWritten =>
        /\ fs["mcp.json.bak"] = [fmt |-> "pretty", val |-> orig]
        /\ start["mcp.json"].fmt = "pretty" => fs["mcp.json.bak"] = start["mcp.json"]
        /\ (run > 1 /\ hist[run - 1].kind = "return" /\ hist[run - 1].code = 0)
              => fs["mcp.json.bak"] = start["mcp.json"]

C7_Witness ==
    /\ run = 2 /\ hist[1].kind = "return" /\ hist[1].code = 0
    /\ BackupWritten /\ pc = "done"
    /\ start["mcp.json.bak"].fmt = "pretty"
    /\ fs["mcp.json.bak"] # start["mcp.json.bak"]
    /\ fs["mcp.json.bak"] = start["mcp.json"]

RunOk(h) == h.kind = "return" /\ h.code = 0

\* C8: of two successful runs in a row with the same key, the second writes
\* the document the first wrote and chooses the entry name the first chose.
C8_Idempotent ==
    \A i \in 1..(Len(hist) - 1) :
        (RunOk(hist[i]) /\ RunOk(hist[i + 1]) /\ hist[i].key = hist[i + 1].key) =>
            /\ hist[i + 1].cfg = hist[i].cfg
            /\ hist[i + 1].name = hist[i].name

C8_Witness ==
    /\ Len(hist) = 2 /\ RunOk(hist[1]) /\ RunOk(hist[2])
    /\ hist[2].name = "easygrid-mcp"
    /\ Logged("dump", "mcp.json") /\ fs["mcp.json"] = hist[1].cfg

\* C9: a run that stops after the backup write has completed and before the
\* final write of mcp.json begins leaves mcp.json with the content it had at
\* the start of the run.
C9_CrashBeforeWriteKeepsConfig ==
    (pc = "done" /\ result.kind \in {"killed", "raise"}
       /\ result.at \in {"L39", "L43", "L51", "L54", "L59"}) =>
        fs["mcp.json"] = start["mcp.json"]

C9_Witness ==
    /\ pc = "done" /\ result.kind = "killed" /\ result.at = "L59"
    /\ config # orig
    /\ BackupWritten
    /\ fs["mcp.json"] = start["mcp.json"]

\* C10: in every run mcp.json is read at most once (exactly once when the
\* run gets past the read); the backup is written only after the three
\* precondition checks have passed and mcp.json has been read; mcp.json is
\* written at most once, only after the backup write of the run has
\* completed, and a run that writes it does not return 1, while a run that
\* returns 0 has written it.
C10_FileOperationOrder ==
    /\ Count("read", "mcp.json") <= 1
    /\ pc \in {"L35", "L36", "L39", "L43", "L51", "L54", "L59", "L60", "L62"}
          => Count("read", "mcp.json") = 1
    /\ Logged("open_w", "mcp.json.bak") => (KeyUsable /\ ~ConfigMissing)
    /\ Before("read", "api-key", "open_w", "mcp.json.bak")
    /\ Before("read", "mcp.json", "open_w", "mcp.json.bak")
    /\ Count("open_w", "mcp.json.bak") <= 1 /\ Count("dump", "mcp.json.bak") <= 1
    /\ Count("open_w", "mcp.json") <= 1 /\ Count("dump", "mcp.json") <= 1
    /\ Before("dump", "mcp.json.bak", "open_w", "mcp.json")
    /\ Before("open_w", "mcp.json", "dump", "mcp.json")
    /\ fs["mcp.json"] # start["mcp.json"] => BackupWritten
    /\ (Logged("open_w", "mcp.json") /\ result.kind = "return") => result.code = 0
    /\ Succeeded => Logged("dump", "mcp.json")

C10_Witness ==
    /\ Succeeded
    /\ ops = << <<"read", "api-key">>, <<"read", "mcp.json">>,
                <<"open_w", "mcp.json.bak">>, <<"dump", "mcp.json.bak">>,
                <<"open_w", "mcp.json">>, <<"dump", "mcp.json">> >>
====
